---- MODULE Spec2Model ----
(***************************************************************************)
(* Model of daily_deals.py: the Deal value model (Deal.from_json and the   *)
(* savings properties), the fragment filter and parser                     *)
(* (BJJFanaticsScraper._parse_deals), the collection metadata fetch        *)
(* (_get_deals_info), one page listing (_list_deals) and the pagination    *)
(* loop (get_all_deals).                                                   *)
(*                                                                         *)
(* Two specifications share the variables:                                 *)
(*   Spec      - a run of get_all_deals against an upstream whose pages    *)
(*               are fixed at the start (FairSpec adds the fairness of a   *)
(*               single sequential thread);                                *)
(*   SpecParse - the pure functions applied to a sequence of fragments.    *)
(***************************************************************************)
EXTENDS Integers, Sequences, FiniteSets, TLC

(***************************************************************************)
(* Bounds.                                                                 *)
(***************************************************************************)
\* Pages 1..MaxPage of the upstream are chosen freely; every later page is
\* the upstream's tail page (the same response for every page > MaxPage).
MaxPage == 2
\* The longest fragment sequence handed to _parse_deals in SpecParse.
MaxCards == 2
\* How far a run that never meets an empty page is followed.
MaxPg == MaxPage + 2

(***************************************************************************)
(* JSON values as json.loads produces them.  A string is a sequence of     *)
(* one-character strings (an HTML entity reference is one element).        *)
(***************************************************************************)
JNull == [t |-> "null", b |-> FALSE, n |-> 0, s |-> <<>>]
JBool(x) == [t |-> "bool", b |-> x, n |-> 0, s |-> <<>>]
JNum(x) == [t |-> "num", b |-> FALSE, n |-> x, s |-> <<>>]
JStr(x) == [t |-> "str", b |-> FALSE, n |-> 0, s |-> x]

\* Python truthiness of a decoded JSON scalar.
Truthy(v) ==
    CASE v.t = "null" -> FALSE
      [] v.t = "bool" -> v.b
      [] v.t = "num" -> v.n # 0
      [] OTHER -> v.s # <<>>

Digits == {"0", "1", "2", "3", "4", "5", "6", "7", "8", "9"}

DigitVal(c) ==
    CASE c = "0" -> 0 [] c = "1" -> 1 [] c = "2" -> 2 [] c = "3" -> 3
      [] c = "4" -> 4 [] c = "5" -> 5 [] c = "6" -> 6 [] c = "7" -> 7
      [] c = "8" -> 8 [] OTHER -> 9

\* The number a string of decimal digits denotes.
StrToNat(s) ==
    LET value[i \in 0..Len(s)] ==
            IF i = 0 THEN 0 ELSE value[i - 1] * 10 + DigitVal(s[i])
    IN  value[Len(s)]

RECURSIVE Gcd(_, _)
Gcd(a, b) == IF b = 0 THEN a ELSE Gcd(b, a % b)

Abs(x) == IF x < 0 THEN -x ELSE x

(***************************************************************************)
(* Python floats, as exact fractions in lowest terms (every value here is  *)
(* a number of hundredths or a quotient of two); None is a value of its    *)
(* own.                                                                    *)
(***************************************************************************)
None == [none |-> TRUE, num |-> 0, den |-> 1]

Frac(n, d) ==
    LET g == Gcd(Abs(n), d)
    IN  [none |-> FALSE, num |-> n \div g, den |-> d \div g]

\* float(x) of a decoded JSON scalar that is not None: ok = FALSE is the
\* ValueError of a string that is no number.
float(v) ==
    CASE v.t = "num" -> [ok |-> TRUE, val |-> v.n]
      [] v.t = "bool" -> [ok |-> TRUE, val |-> IF v.b THEN 1 ELSE 0]
      [] v.t = "str" /\ v.s # <<>> /\ (\A i \in 1..Len(v.s) : v.s[i] \in Digits) ->
            [ok |-> TRUE, val |-> StrToNat(v.s)]
      [] OTHER -> [ok |-> FALSE, val |-> 0]

(***************************************************************************)
(* html.unescape and pathlib.Path on the url.                              *)
(***************************************************************************)
UnescapeChar(c) ==
    CASE c = "&amp;" -> "&"
      [] c = "&lt;" -> "<"
      [] OTHER -> c

html_unescape(s) == [i \in 1..Len(s) |-> UnescapeChar(s[i])]

\* Path(...) collapses a run of separators into one.
RECURSIVE Path(_)
Path(s) ==
    IF Len(s) < 2 THEN s
    ELSE IF s[1] = "/" /\ s[2] = "/" THEN Path(Tail(s))
    ELSE <<s[1]>> \o Path(Tail(s))

(***************************************************************************)
(* Deal and Deal.from_json.                                                *)
(***************************************************************************)
Deal(id, title, original_price, current_price, seller, path, available) ==
    [id |-> id, title |-> title, original_price |-> original_price,
     current_price |-> current_price, seller |-> seller, path |-> path,
     available |-> available]

NoDeal == Deal(JNull, JNull, None, None, JNull, <<>>, FALSE)

Raise(e) == [err |-> e, deal |-> NoDeal]

\* A slip: the last variant is read, not the first.
VariantIndexLast(variants) == Len(variants)

\* The variant whose prices from_json reads: data['variants'][0].
VariantIndex(variants) == 1

\* One of the two price expressions of from_json; raw is the variant's value.
PriceOf(raw) ==
    IF raw.t = "null" THEN None ELSE Frac(float(raw).val, 100)

\* data is what json.loads returned: kind is "dict" for a mapping, and obj
\* is then the mapping (a record whose DOMAIN is the keys present).
from_json(data) ==
    IF data.kind # "dict" THEN Raise("TypeError")
    ELSE LET d == data.obj IN
    IF ~({"id", "title", "variants"} \subseteq DOMAIN d) THEN Raise("KeyError")
    ELSE IF d.variants = <<>> THEN Raise("IndexError")
    ELSE LET v == d.variants[VariantIndex(d.variants)] IN
    IF "compare_at_price" \notin DOMAIN v THEN Raise("KeyError")
    ELSE IF v.compare_at_price.t # "null" /\ ~float(v.compare_at_price).ok
         THEN Raise("ValueError")
    ELSE IF "price" \notin DOMAIN v THEN Raise("KeyError")
    ELSE IF v.price.t # "null" /\ ~float(v.price).ok THEN Raise("ValueError")
    ELSE IF ~({"vendor", "url", "available"} \subseteq DOMAIN d) THEN Raise("KeyError")
    ELSE [err |-> "none",
          deal |-> Deal(d.id, d.title, PriceOf(v.compare_at_price),
                        PriceOf(v.price), d.vendor,
                        Path(html_unescape(d.url.s)), Truthy(d.available))]

(***************************************************************************)
(* Deal.savings_amount and Deal.savings_percentage: err is the exception   *)
(* the property raises, "none" when it returns val.                        *)
(***************************************************************************)
\* A slip: the operands of the difference are swapped.
savings_amount_reversed(self) ==
    IF self.original_price.none \/ self.current_price.none
    THEN [err |-> "TypeError", val |-> None]
    ELSE [err |-> "none",
          val |-> Frac(self.current_price.num * self.original_price.den
                         - self.original_price.num * self.current_price.den,
                       self.original_price.den * self.current_price.den)]

savings_amount(self) ==
    IF self.original_price.none \/ self.current_price.none
    THEN [err |-> "TypeError", val |-> None]
    ELSE [err |-> "none",
          val |-> Frac(self.original_price.num * self.current_price.den
                         - self.current_price.num * self.original_price.den,
                       self.original_price.den * self.current_price.den)]

savings_percentage(self) ==
    IF self.original_price.none \/ self.current_price.none
    THEN [err |-> "TypeError", val |-> None]
    ELSE IF self.original_price.num = 0
    THEN [err |-> "ZeroDivisionError", val |-> None]
    ELSE [err |-> "none",
          val |-> Frac(self.current_price.num * self.original_price.den,
                       self.current_price.den * self.original_price.num)]

(***************************************************************************)
(* Fragments: the text of one script element.  min0 says whether the text  *)
(* contains the literal '"compare_at_price_min": 0,'; kind and obj are     *)
(* what json.loads makes of the text ("invalid": it raises).               *)
(***************************************************************************)
Variant(cap, price) == [compare_at_price |-> cap, price |-> price]

Product(id, title, vendor, url, available, variants) ==
    [id |-> JNum(id), title |-> JStr(title), vendor |-> JStr(vendor),
     url |-> JStr(url), available |-> available, variants |-> variants]

Fragment(min0, kind, obj) == [min0 |-> min0, kind |-> kind, obj |-> obj]

NoObj == [id |-> JNull]

json_loads(card) ==
    IF card.kind = "invalid"
    THEN [ok |-> FALSE, kind |-> "invalid", obj |-> NoObj]
    ELSE [ok |-> TRUE, kind |-> card.kind, obj |-> card.obj]

\* A slip: the comprehension has no condition.
KeepAll(card) == TRUE

\* The condition of the comprehension of _parse_deals.
Keep(card) == ~card.min0

\* What the comprehension does with one kept fragment: json.loads, then
\* Deal.from_json.
ParseOne(card) ==
    IF ~json_loads(card).ok THEN Raise("JSONDecodeError")
    ELSE from_json(json_loads(card))

\* The comprehension over the kept fragments, in order: the first fragment
\* that raises ends it.
ParseKept(kept) ==
    LET bad == {i \in 1..Len(kept) : ParseOne(kept[i]).err # "none"}
    IN  IF bad # {}
        THEN [err |-> ParseOne(kept[CHOOSE i \in bad : \A j \in bad : i <= j]).err,
              deals |-> <<>>]
        ELSE [err |-> "none",
              deals |-> [i \in 1..Len(kept) |-> ParseOne(kept[i]).deal]]

\* cards is always the ResultSet (a list) of find_all, so the isinstance
\* check never raises.
_parse_deals(cards) == ParseKept(SelectSeq(cards, Keep))

(***************************************************************************)
(* The inputs: fragments, page responses and metadata responses.           *)
(***************************************************************************)
S_0 == <<"0">>
S_10000 == <<"1", "0", "0", "0", "0">>
S_8050 == <<"8", "0", "5", "0">>
S_abc == <<"a", "b", "c">>
S_Gi == <<"G", "i">>
S_X == <<"X">>
S_url == <<"h", ":", "/", "/", "a", "&amp;", "b">>

Caps == {JNull, JStr(S_0), JStr(S_10000)}
Prices == {JNull, JStr(S_8050)}
Avails == {JBool(TRUE), JStr(<<>>)}

\* Well-formed products with one variant, with and without the sentinel text.
RegularFragments ==
    {Fragment(m, "dict",
              Product(1, S_Gi, S_X, S_url, a, <<Variant(c, p)>>)) :
        m \in BOOLEAN, a \in Avails, c \in Caps, p \in Prices}

FragA ==
    Fragment(FALSE, "dict",
             Product(1, S_Gi, S_X, S_url, JBool(TRUE),
                     <<Variant(JStr(S_10000), JStr(S_8050))>>))
FragB ==
    Fragment(FALSE, "dict",
             Product(2, S_X, S_Gi, S_url, JNum(0),
                     <<Variant(JStr(S_8050), JStr(S_0))>>))
\* Two variants: the second one differs from the first in both prices.
FragTwoVariants ==
    Fragment(FALSE, "dict",
             Product(2, S_Gi, S_X, S_url, JNum(1),
                     <<Variant(JStr(S_10000), JNull),
                       Variant(JStr(S_0), JStr(S_8050))>>))
\* The sentinel text around a product whose variants[0].compare_at_price is
\* not zero.
FragF ==
    Fragment(TRUE, "dict",
             Product(2, S_Gi, S_X, S_url, JBool(TRUE),
                     <<Variant(JStr(S_10000), JStr(S_8050))>>))
\* The sentinel text in a fragment that is not valid JSON.
FragBadF == Fragment(TRUE, "invalid", NoObj)
FragBad == Fragment(FALSE, "invalid", NoObj)
FragList == Fragment(FALSE, "list", NoObj)
FragMissing ==
    Fragment(FALSE, "dict",
             [id |-> JNum(2), title |-> JStr(S_Gi), url |-> JStr(S_url),
              available |-> JBool(TRUE),
              variants |-> <<Variant(JStr(S_10000), JStr(S_8050))>>])
FragNoVariants ==
    Fragment(FALSE, "dict", Product(2, S_Gi, S_X, S_url, JBool(TRUE), <<>>))
FragBadPrice ==
    Fragment(FALSE, "dict",
             Product(2, S_Gi, S_X, S_url, JBool(TRUE),
                     <<Variant(JStr(S_abc), JStr(S_8050))>>))

Fragments ==
    RegularFragments \cup
    {FragA, FragB, FragTwoVariants, FragF, FragBadF, FragBad, FragList,
     FragMissing, FragNoVariants, FragBadPrice}

SeqsUpTo(S, n) == UNION {[1..k -> S] : k \in 0..n}

\* requests.codes.ok
codes_ok == 200

PageResponse(status, cards) == [status |-> status, cards |-> cards]

PageBodies ==
    {<<>>, <<FragA>>, <<FragA, FragB>>, <<FragB, FragA>>, <<FragF, FragBadF>>,
     <<FragF, FragB>>, <<FragA, FragBad>>, <<FragMissing>>}

PageResponses ==
    {PageResponse(codes_ok, b) : b \in PageBodies} \cup
    {PageResponse(500, <<FragA>>)}

TailResponses == {PageResponse(codes_ok, <<>>), PageResponse(codes_ok, <<FragA>>)}

\* An ISO-8601 timestamp text is <<day, hour>>; <<>> is a text that is none.
Iso1 == <<1, 0>>
Iso2 == <<2, 12>>

\* A metadata response: conn = FALSE is a connection failure (requests.get
\* raises); body is "json" for {"collection": {"updated_at": ...}},
\* "nocollection", "noupdated" for the documents lacking the key, and
\* "invalid" for a body that is not JSON.
MetaResponse(conn, status, body, updated_at) ==
    [conn |-> conn, status |-> status, body |-> body, updated_at |-> updated_at]

MetaResponses ==
    {MetaResponse(TRUE, codes_ok, "json", Iso1),
     MetaResponse(TRUE, codes_ok, "json", Iso2),
     MetaResponse(TRUE, 500, "json", Iso2),
     MetaResponse(TRUE, 500, "invalid", <<>>),
     MetaResponse(TRUE, codes_ok, "invalid", <<>>),
     MetaResponse(TRUE, codes_ok, "nocollection", <<>>),
     MetaResponse(TRUE, codes_ok, "noupdated", <<>>),
     MetaResponse(TRUE, codes_ok, "json", <<>>),
     MetaResponse(FALSE, 0, "invalid", <<>>)}

(***************************************************************************)
(* DailyDeals, _get_deals_info and the pieces of _list_deals and           *)
(* get_all_deals.                                                          *)
(***************************************************************************)
DailyDeals(updated_date, expiry_date, deals) ==
    [updated_date |-> updated_date, expiry_date |-> expiry_date, deals |-> deals]

\* A slip: a page of one deal counts as empty.
is_empty_off_by_one(self) == Len(self.deals) <= 1

is_empty(self) == Len(self.deals) = 0

\* The '' of the placeholder DailyDeals('', '', [1]).
NoDate == -1
\* The placeholder's one element (the 1 of [1]): never read, only counted.
PlaceholderDeal == Deal(JNum(1), JNull, None, None, JNull, <<>>, FALSE)

\* One day, in hours.
timedelta_days_1 == 24

\* datetime.fromisoformat: hours since day 0.
fromisoformat(iso) ==
    IF Len(iso) = 2 THEN [ok |-> TRUE, val |-> iso[1] * 24 + iso[2]]
    ELSE [ok |-> FALSE, val |-> NoDate]

\* _get_deals_info: requests.get, json.loads(res.content), data['collection'].
\* The status of the response is never looked at.
_get_deals_info(res) ==
    IF ~res.conn THEN [err |-> "ConnectionError", updated_at |-> <<>>, has |-> FALSE]
    ELSE IF res.body = "invalid"
    THEN [err |-> "JSONDecodeError", updated_at |-> <<>>, has |-> FALSE]
    ELSE IF res.body = "nocollection"
    THEN [err |-> "KeyError", updated_at |-> <<>>, has |-> FALSE]
    ELSE [err |-> "none", updated_at |-> res.updated_at, has |-> res.body = "json"]

\* A slip: the status check is missing.
StatusOkLax(res) == TRUE

\* The status check of _request_cards.
StatusOk(res) == res.status = codes_ok

\* A slip: the page's deals are put in front.
ExtendPrepend(total, deals) == deals \o total

\* total_deals.extend(curr_page.deals)
Extend(total, deals) == total \o deals

\* A slip: the two dates are passed in the wrong order.
ReturnValueSwapped(curr, total) ==
    DailyDeals(curr.expiry_date, curr.updated_date, total)

\* The DailyDeals get_all_deals returns after the loop.
ReturnValue(curr, total) ==
    DailyDeals(curr.updated_date, curr.expiry_date, total)

\* A slip: the loop condition is negated.
LoopContinuesInverted(curr) == is_empty(curr)

\* The loop condition of get_all_deals.
LoopContinues(curr) == ~is_empty(curr)

NoResult == DailyDeals(NoDate, NoDate, <<>>)

(***************************************************************************)
(* State.                                                                  *)
(***************************************************************************)
VARIABLES
    upstream,     \* the page responses: pages 1..MaxPage, then the tail page
    pc,           \* position of get_all_deals: "loop", "page_wait",
                  \* "meta_wait", "done", "error"; "parse" in SpecParse
    pg,           \* get_all_deals: pg
    curr_page,    \* get_all_deals: curr_page
    total_deals,  \* get_all_deals: total_deals
    deals_data,   \* _list_deals: deals_data
    inflight,     \* the requests sent and not yet answered
    log,          \* history: every request sent, in order
    metaLog,      \* history: every metadata response received, in order
    result,       \* what get_all_deals returned (returned says whether)
    returned,
    cards,        \* SpecParse: the fragments
    parsed,       \* SpecParse: what _parse_deals(cards) gave
    fj,           \* SpecParse: what Deal.from_json gave for one fragment
    sav           \* SpecParse: what a savings property gave for fj's Deal

vars ==
    <<upstream, pc, pg, curr_page, total_deals, deals_data, inflight, log,
      metaLog, result, returned, cards, parsed, fj, sav>>

runVars ==
    <<upstream, pc, pg, curr_page, total_deals, deals_data, inflight, log,
      metaLog, result, returned>>

parseVars == <<cards, parsed, fj, sav>>

NotParsed == [done |-> FALSE, err |-> "none", deals |-> <<>>]
NoFj == [i |-> 0, err |-> "none", deal |-> NoDeal]
NoSav == [prop |-> "none", err |-> "none", val |-> None]

\* The response of the upstream to a request for page n.
UpstreamPage(n) == IF n <= MaxPage THEN upstream.pages[n] ELSE upstream.tail

PageReq(n) == [kind |-> "page", pg |-> n]
MetaReq == [kind |-> "meta", pg |-> 0]

(***************************************************************************)
(* get_all_deals, one step per blocking request.                           *)
(***************************************************************************)
RunInit ==
    /\ pc = "loop"
    /\ pg = 1
    /\ curr_page = DailyDeals(NoDate, NoDate, <<PlaceholderDeal>>)
    /\ total_deals = <<>>
    /\ deals_data = <<>>
    /\ inflight = {}
    /\ log = <<>>
    /\ metaLog = <<>>
    /\ result = NoResult
    /\ returned = FALSE

ParseIdle ==
    /\ cards = <<>>
    /\ parsed = NotParsed
    /\ fj = NoFj
    /\ sav = NoSav

Init ==
    /\ upstream \in [pages : [1..MaxPage -> PageResponses], tail : TailResponses]
    /\ RunInit
    /\ ParseIdle

\* while not curr_page.is_empty: ... requests.get of _request_cards is sent.
RequestPage ==
    /\ pc = "loop"
    /\ LoopContinues(curr_page)
    /\ pg <= MaxPg
    /\ inflight' = inflight \cup {PageReq(pg)}
    /\ log' = Append(log, PageReq(pg))
    /\ pc' = "page_wait"
    /\ UNCHANGED <<upstream, pg, curr_page, total_deals, deals_data, metaLog,
                   result, returned, parseVars>>

\* The loop condition is false: return DailyDeals(...).
Return ==
    /\ pc = "loop"
    /\ ~LoopContinues(curr_page)
    /\ result' = ReturnValue(curr_page, total_deals)
    /\ returned' = TRUE
    /\ pc' = "done"
    /\ UNCHANGED <<upstream, pg, curr_page, total_deals, deals_data, inflight,
                   log, metaLog, parseVars>>

\* The page response arrives: the rest of _request_cards, _parse_deals, and
\* the requests.get of _get_deals_info is sent.
PageArrives ==
    /\ pc = "page_wait"
    /\ \E res \in {UpstreamPage(pg)} :
       \E p \in {_parse_deals(res.cards)} :
           IF ~StatusOk(res) \/ p.err # "none"
           THEN /\ pc' = "error"
                /\ inflight' = inflight \ {PageReq(pg)}
                /\ UNCHANGED <<deals_data, log>>
           ELSE /\ deals_data' = p.deals
                /\ inflight' = (inflight \ {PageReq(pg)}) \cup {MetaReq}
                /\ log' = Append(log, MetaReq)
                /\ pc' = "meta_wait"
    /\ UNCHANGED <<upstream, pg, curr_page, total_deals, metaLog, result,
                   returned, parseVars>>

\* The metadata response arrives: the rest of _get_deals_info and of
\* _list_deals, then total_deals.extend(...) and pg += 1.
MetaArrives ==
    /\ pc = "meta_wait"
    /\ \E res \in MetaResponses :
          LET info == _get_deals_info(res)
              ts == fromisoformat(info.updated_at)
          IN  /\ metaLog' = Append(metaLog, res)
              /\ inflight' = inflight \ {MetaReq}
              /\ IF info.err # "none" \/ ~info.has \/ ~ts.ok
                 THEN /\ pc' = "error"
                      /\ UNCHANGED <<curr_page, total_deals, pg>>
                 ELSE /\ curr_page' = DailyDeals(ts.val, ts.val + timedelta_days_1,
                                                 deals_data)
                      /\ total_deals' = Extend(total_deals, curr_page'.deals)
                      /\ pg' = pg + 1
                      /\ pc' = "loop"
    /\ UNCHANGED <<upstream, deals_data, log, result, returned, parseVars>>

Next == RequestPage \/ Return \/ PageArrives \/ MetaArrives

Spec == Init /\ [][Next]_vars

\* One thread runs the loop and every request is answered: a step that can
\* be taken is taken.
FairSpec == Spec /\ WF_vars(Next)

(***************************************************************************)
(* The pure functions applied to a sequence of fragments.                  *)
(***************************************************************************)
ParseInit ==
    /\ upstream = [pages |-> [n \in 1..MaxPage |-> PageResponse(codes_ok, <<>>)],
                   tail |-> PageResponse(codes_ok, <<>>)]
    /\ RunInit
    /\ cards \in SeqsUpTo(Fragments, MaxCards)
    /\ parsed = NotParsed
    /\ fj = NoFj
    /\ sav = NoSav

ParseDeals ==
    /\ ~parsed.done
    /\ LET p == _parse_deals(cards)
       IN  parsed' = [done |-> TRUE, err |-> p.err, deals |-> p.deals]
    /\ UNCHANGED <<runVars, cards, fj, sav>>

FromJson ==
    /\ fj.i = 0
    /\ \E i \in 1..Len(cards) :
          /\ json_loads(cards[i]).ok
          /\ LET r == from_json(json_loads(cards[i]))
             IN  fj' = [i |-> i, err |-> r.err, deal |-> r.deal]
    /\ UNCHANGED <<runVars, cards, parsed, sav>>

SavingsAmount ==
    /\ fj.i > 0
    /\ fj.err = "none"
    /\ sav.prop = "none"
    /\ LET r == savings_amount(fj.deal)
       IN  sav' = [prop |-> "amount", err |-> r.err, val |-> r.val]
    /\ UNCHANGED <<runVars, cards, parsed, fj>>

SavingsPercentage ==
    /\ fj.i > 0
    /\ fj.err = "none"
    /\ sav.prop = "none"
    /\ LET r == savings_percentage(fj.deal)
       IN  sav' = [prop |-> "percentage", err |-> r.err, val |-> r.val]
    /\ UNCHANGED <<runVars, cards, parsed, fj>>

ParseNext == ParseDeals \/ FromJson \/ SavingsAmount \/ SavingsPercentage

SpecParse == ParseInit /\ [][ParseNext]_vars

(***************************************************************************)
(* Vocabulary of the properties, stated from the inputs alone.             *)
(***************************************************************************)
\* The deals a page's fragments stand for: one per fragment whose text
\* lacks the sentinel, in document order.
RECURSIVE DealsOf(_)
DealsOf(cs) ==
    IF cs = <<>> THEN <<>>
    ELSE (IF Head(cs).min0 THEN <<>>
          ELSE <<from_json(json_loads(Head(cs))).deal>>) \o DealsOf(Tail(cs))

PageYield(n) == DealsOf(UpstreamPage(n).cards)

\* k is the first page number whose filtered and parsed deal list is empty.
IsFirstEmpty(k) ==
    /\ PageYield(k) = <<>>
    /\ \A n \in 1..(k - 1) : PageYield(n) # <<>>

HasEmptyPage == \E k \in 1..(MaxPage + 1) : IsFirstEmpty(k)

RECURSIVE ConcatPages(_)
ConcatPages(n) == IF n = 0 THEN <<>> ELSE ConcatPages(n - 1) \o PageYield(n)

\* The page responses received so far.
PagesAnswered ==
    Cardinality({i \in 1..Len(log) : log[i].kind = "page"})
      - (IF pc = "page_wait" THEN 1 ELSE 0)

\* The request for page n fails: its status, or a fragment that is kept.
PageBad(n) ==
    LET r == UpstreamPage(n)
    IN  \/ r.status # 200
        \/ \E i \in 1..Len(r.cards) :
              /\ ~r.cards[i].min0
              /\ \/ r.cards[i].kind = "invalid"
                 \/ from_json(json_loads(r.cards[i])).err # "none"

\* The metadata fetch raises: no response, no JSON, no collection.updated_at
\* or no timestamp in it.
MetaBad(m) == ~m.conn \/ m.body # "json" \/ Len(m.updated_at) # 2

(***************************************************************************)
(* C1: when get_all_deals returns, with k the first page whose deal list   *)
(* is empty, the deals returned are the deal lists of pages 1..k-1         *)
(* concatenated in page order, each in document order, duplicates kept,    *)
(* and nothing of page k or of a later page.                               *)
(***************************************************************************)
C1_DealsAreConcatenation ==
    returned =>
        \E k \in 1..(MaxPage + 1) :
            /\ IsFirstEmpty(k)
            /\ result.deals = ConcatPages(k - 1)

\* Two pages of two deals each, the same two products in opposite order.
C1_Witness ==
    /\ returned
    /\ Len(result.deals) = 4
    /\ result.deals[1] # result.deals[2]
    /\ result.deals[2] = result.deals[3]
    /\ result.deals[1] = result.deals[4]

(***************************************************************************)
(* C2: the requests are page(1), metadata, page(2), metadata, ... with no  *)
(* gap or repeat, at most one in flight; page 1 is always requested; a     *)
(* run that returns has sent exactly 2k requests, k the first page with    *)
(* no deals after filtering, and no run sends a request past that page's   *)
(* metadata fetch.                                                         *)
(***************************************************************************)
C2_RequestSequence ==
    /\ Cardinality(inflight) <= 1
    /\ inflight \subseteq {log[i] : i \in 1..Len(log)}
    /\ \A i \in 1..Len(log) :
          log[i] = IF i % 2 = 1 THEN PageReq((i + 1) \div 2) ELSE MetaReq
    /\ \A k \in 1..(MaxPage + 1) : IsFirstEmpty(k) => Len(log) <= 2 * k
    /\ returned =>
          /\ inflight = {}
          /\ Len(log) >= 2
          /\ \E k \in 1..(MaxPage + 1) : IsFirstEmpty(k) /\ Len(log) = 2 * k

\* Page 1 has fragments, all filtered out; page 2 holds deals; the run
\* stopped after page 1.
C2_Witness ==
    /\ returned
    /\ log = <<PageReq(1), MetaReq>>
    /\ UpstreamPage(1).cards # <<>>
    /\ PageYield(2) # <<>>

(***************************************************************************)
(* C3: a page request with a non-success status, a kept fragment that      *)
(* fails JSON decoding or Deal.from_json, or a metadata fetch that raises, *)
(* on page n, ends get_all_deals in an error: nothing is returned (the     *)
(* deals of pages 1..n-1 neither) and no later request is sent.            *)
(***************************************************************************)
C3_FailureAborts ==
    /\ \A n \in 1..PagesAnswered :
          PageBad(n) =>
              /\ pc = "error" /\ ~returned /\ result = NoResult
              /\ inflight = {} /\ Len(log) = 2 * n - 1
              /\ \A i \in 1..Len(log) : log[i].kind = "page" => log[i].pg <= n
    /\ \A n \in 1..Len(metaLog) :
          MetaBad(metaLog[n]) =>
              /\ pc = "error" /\ ~returned /\ result = NoResult
              /\ inflight = {} /\ Len(log) = 2 * n
              /\ \A i \in 1..Len(log) : log[i].kind = "page" => log[i].pg <= n

\* Page 1 gave deals; page 2 has a good fragment and one that is no JSON.
C3_Witness ==
    /\ pc = "error"
    /\ pg = 2
    /\ total_deals # <<>>
    /\ UpstreamPage(2).cards = <<FragA, FragBad>>

(***************************************************************************)
(* C5: the updated_date returned is the timestamp of the metadata fetch    *)
(* made for the last page fetched (the empty page k), whatever the         *)
(* earlier fetches returned.                                               *)
(***************************************************************************)
C5_LastTimestamp ==
    returned =>
        /\ \E k \in 1..(MaxPage + 1) : IsFirstEmpty(k) /\ Len(metaLog) = k
        /\ LET m == metaLog[Len(metaLog)]
           IN  result.updated_date = m.updated_at[1] * 24 + m.updated_at[2]

\* The first and the last metadata fetch returned different timestamps.
C5_Witness ==
    /\ returned
    /\ Len(metaLog) >= 2
    /\ metaLog[1].updated_at # metaLog[Len(metaLog)].updated_at

(***************************************************************************)
(* C8: a metadata request answered with a non-success status ends the run  *)
(* in an error, whatever the body holds.                                   *)
(***************************************************************************)
C8_MetaStatusChecked ==
    \A n \in 1..Len(metaLog) :
        (metaLog[n].conn /\ metaLog[n].status # 200) => pc = "error"

(***************************************************************************)
(* C4: get_all_deals returns only after a page with no deals (the first    *)
(* one, and right after it); with such a page the run ends, and without    *)
(* one it never returns and goes on requesting pages of ever higher        *)
(* numbers, as far as the run is followed.                                 *)
(***************************************************************************)
C4_TerminationIffEmptyPage ==
    /\ [](returned => \E k \in 1..(MaxPage + 1) : IsFirstEmpty(k) /\ pg = k + 1)
    /\ <>(IF HasEmptyPage THEN returned \/ pc = "error"
                          ELSE pc = "error" \/ pg > MaxPg)
    /\ [][pc = "meta_wait" /\ pc' = "loop" => pg' = pg + 1]_vars
    /\ [][pc # "meta_wait" => pg' = pg]_vars

\* Every page holds deals: the run has gone through every page followed.
C4_Witness ==
    /\ ~HasEmptyPage
    /\ pc = "loop"
    /\ pg > MaxPg
    /\ Len(total_deals) >= MaxPg

(***************************************************************************)
(* C6: _parse_deals keeps exactly the fragments whose text lacks the       *)
(* sentinel: a fragment with it is dropped before decoding (no Deal, no    *)
(* error, whatever it holds), every other one is decoded and made a Deal   *)
(* (or its failure fails the call), and the Deals are in document order.   *)
(***************************************************************************)
C6_FilterBySentinelText ==
    parsed.done =>
        LET keptIdx == {i \in 1..Len(cards) : ~cards[i].min0}
            badIdx == {i \in keptIdx :
                          \/ cards[i].kind = "invalid"
                          \/ from_json(json_loads(cards[i])).err # "none"}
        IN  /\ parsed.err # "none" <=> badIdx # {}
            /\ parsed.err = "none" =>
                  /\ Len(parsed.deals) = Cardinality(keptIdx)
                  /\ parsed.deals = DealsOf(cards)

\* A fragment with the sentinel text whose variants[0].compare_at_price is
\* not zero, followed by a fragment that is kept.
C6_Witness ==
    /\ parsed.done
    /\ parsed.err = "none"
    /\ Len(cards) = 2
    /\ cards[1] = FragF
    /\ ~cards[2].min0
    /\ Len(parsed.deals) = 1

(***************************************************************************)
(* C7: no Deal that _parse_deals returns has an original_price of zero (a  *)
(* product whose variants[0].compare_at_price is zero is left out).        *)
(***************************************************************************)
C7_NoZeroOriginalPrice ==
    parsed.done =>
        \A i \in 1..Len(parsed.deals) :
            ~(~parsed.deals[i].original_price.none
              /\ parsed.deals[i].original_price.num = 0)

(***************************************************************************)
(* C9: Deal.from_json of a product with variants copies id, title and      *)
(* vendor (as seller), makes available a boolean, and takes both prices    *)
(* from variants[0]: the value over 100, or None for a null; the other     *)
(* variants play no part.                                                  *)
(***************************************************************************)
\* The float f is the raw price over 100, or None for a null.
PriceIs(f, raw) ==
    IF raw.t = "null" THEN f.none
    ELSE /\ ~f.none
         /\ f.den > 0
         /\ f.num * 100 = StrToNat(raw.s) * f.den

C9_FromJsonFields ==
    (fj.i > 0 /\ fj.err = "none") =>
        LET p == cards[fj.i].obj
            d == fj.deal
        IN  /\ d.id = p.id
            /\ d.title = p.title
            /\ d.seller = p.vendor
            /\ d.available \in BOOLEAN
            /\ d.available <=>
                  \/ p.available.t = "bool" /\ p.available.b
                  \/ p.available.t = "num" /\ p.available.n # 0
                  \/ p.available.t = "str" /\ p.available.s # <<>>
            /\ PriceIs(d.original_price, p.variants[1].compare_at_price)
            /\ PriceIs(d.current_price, p.variants[1].price)

\* A product with two variants that differ in both prices.
C9_Witness ==
    /\ fj.i > 0
    /\ fj.err = "none"
    /\ Len(cards[fj.i].obj.variants) = 2
    /\ cards[fj.i].obj.variants[1] # cards[fj.i].obj.variants[2]

(***************************************************************************)
(* C10: savings_amount and savings_percentage.                             *)
(***************************************************************************)
Absent(d) == d.original_price.none \/ d.current_price.none

\* val is original_price - current_price.
IsDifference(val, d) ==
    /\ ~val.none
    /\ val.num * d.original_price.den * d.current_price.den
         = (d.original_price.num * d.current_price.den
              - d.current_price.num * d.original_price.den) * val.den

\* val is current_price / original_price.
IsQuotient(val, d) ==
    /\ ~val.none
    /\ val.num * d.current_price.den * d.original_price.num
         = d.current_price.num * d.original_price.den * val.den

\* C10 as claimed: both properties raise when either price is absent or
\* original_price is zero, and otherwise return the difference and the
\* quotient.
C10_BothRaiseOnZeroOriginal ==
    sav.prop # "none" =>
        LET d == fj.deal
            undefined == Absent(d) \/ d.original_price.num = 0
        IN  /\ undefined => sav.err # "none"
            /\ ~undefined =>
                  /\ sav.err = "none"
                  /\ sav.prop = "amount" => IsDifference(sav.val, d)
                  /\ sav.prop = "percentage" => IsQuotient(sav.val, d)

\* C10 amended: savings_amount raises exactly when a price is absent, and
\* savings_percentage exactly when a price is absent or original_price is
\* zero; otherwise they return the difference and the quotient.
C10_RaisesWhenUndefined ==
    sav.prop # "none" =>
        LET d == fj.deal
        IN  /\ sav.prop = "amount" =>
                  /\ sav.err # "none" <=> Absent(d)
                  /\ ~Absent(d) => IsDifference(sav.val, d)
            /\ sav.prop = "percentage" =>
                  /\ sav.err # "none" <=> (Absent(d) \/ d.original_price.num = 0)
                  /\ sav.err = "none" => IsQuotient(sav.val, d)

\* savings_amount of a Deal whose original_price is zero and whose
\* current_price is not: it returns a negative amount.
C10_Witness ==
    /\ sav.prop = "amount"
    /\ ~Absent(fj.deal)
    /\ fj.deal.original_price.num = 0
    /\ sav.err = "none"
    /\ sav.val.num < 0

====
